---- MODULE Spec2Model ----
(***************************************************************************)
(* A model of rdf_mcp/servers/brick_server.py: the Brick ontology server.  *)
(*                                                                         *)
(* The ontology graph is parsed when the module is imported and is never   *)
(* written afterwards.  The tools get_terms and get_properties query it,   *)
(* validate_brick_term and expand_abbreviation rank identifiers against a  *)
(* caller's string with smash_distance, and main() builds CLASS_DICT and   *)
(* then serves requests.                                                   *)
(*                                                                         *)
(* Strings are TLA+ strings.  An Optional[str] is a sequence: <<>> is None *)
(* and <<s>> is the string s.  A Python list is a sequence, and a dict is  *)
(* a sequence of <<key, value>> pairs with pairwise distinct keys, in      *)
(* insertion order (the order dict.keys() iterates in).                    *)
(***************************************************************************)
EXTENDS Integers, Sequences, FiniteSets, TLC

VARIABLES
    classRows,      \* ontology: rows the class query yields per identifier
    propRows,       \* ontology: rows the property query yields per identifier
    label,          \* ontology: rdfs:label of an identifier, <<>> when none
    weight,         \* the scorer: distance of a candidate from another string
    CLASS_DICT,     \* the module global CLASS_DICT
    dictWrites,     \* assignments to CLASS_DICT made since the import
    pc,             \* "imported": module loaded; "serving": inside mcp.run()
    nClassQueries,  \* ontology.query calls made by get_terms so far
    nPropQueries,   \* ontology.query calls made by get_properties so far
    response        \* the last tool call and what it returned

vars == <<classRows, propRows, label, weight, CLASS_DICT, dictWrites, pc,
          nClassQueries, nPropQueries, response>>

ontologyVars == <<classRows, propRows, label, weight>>

(***************************************************************************)
(* Bounds and program constants.                                           *)
(***************************************************************************)
\* the slice [:5] of every ranking
TopK == 5
\* get_terms' query is a UNION of two patterns: an identifier is returned
\* once for every pattern it matches
ClassBranches == 2
\* rows get_properties may return for one identifier (its query is a UNION
\* whose first pattern yields one row per super-property)
MaxPropRows == 2
\* scores range over 0..MaxScore
MaxScore == 1
\* ontology.query calls per query kind a run is followed for
MaxQueries == 3

\* Identifiers of the ontology, in the order the graph yields them.
TermOrder == <<"Air_Handler", "Zone", "hasPart">>
Terms == {TermOrder[i] : i \in DOMAIN TermOrder}
\* Display labels, in the order CLASS_DICT comes to hold them.
LabelOrder == <<"AHU", "VAV", "FCU", "RTU", "MAU", "CRAC">>
Labels == {LabelOrder[i] : i \in DOMAIN LabelOrder}
\* A string that is no identifier and no label.
Typo == "AirHandler"
\* The strings a caller passes.
Strings == Terms \cup {Typo}
None == <<>>
ConceptTypes == {None, <<"class">>, <<"property">>, <<"tag">>}

(***************************************************************************)
(* Python built-ins.                                                       *)
(***************************************************************************)
Min(a, b) == IF a <= b THEN a ELSE b

\* s[:n]
Take(s, n) == SubSeq(s, 1, Min(n, Len(s)))

\* x in s
In(x, s) == \E i \in DOMAIN s : s[i] = x

Range(s) == {s[i] : i \in DOMAIN s}

\* One step of sorted(): p = <<key, element>> goes after every pair whose
\* key is not larger, so equal keys keep their order (sorted() is stable).
RECURSIVE InsertByKey(_, _)
InsertByKey(ps, p) ==
    IF ps = <<>> THEN <<p>>
    ELSE IF p[1] < Head(ps)[1] THEN <<p>> \o ps
    ELSE <<Head(ps)>> \o InsertByKey(Tail(ps), p)

RECURSIVE SortPairs(_)
SortPairs(ps) ==
    IF ps = <<>> THEN <<>>
    ELSE InsertByKey(SortPairs(SubSeq(ps, 1, Len(ps) - 1)), ps[Len(ps)])

\* sorted(s, key=...), the key given as a function on the elements of s
sorted(s, key) ==
    LET ps == SortPairs([i \in DOMAIN s |-> <<key[s[i]], s[i]>>])
    IN  [i \in DOMAIN s |-> ps[i][2]]

(***************************************************************************)
(* rdf_mcp.utils.smash.smash_distance: lower is more similar; a string is  *)
(* at distance 0 from itself, and no pair scores below that.  The scorer   *)
(* is any function of this kind: weight is chosen freely.                  *)
(***************************************************************************)
smash_distance(a, b) == IF a = b THEN 0 ELSE weight[b]

(***************************************************************************)
(* The ontology store.                                                     *)
(***************************************************************************)
\* The rows of the k-th UNION pattern: the identifiers matching it.
Branch(rows, k) == SelectSeq(TermOrder, LAMBDA t : rows[t] >= k)

\* ontology.query(...): the patterns' rows one pattern after the other,
\* e.g. <<"Zone", "hasPart", "Zone">>; the SELECT has no DISTINCT.
RECURSIVE QueryRows(_, _)
QueryRows(rows, n) ==
    IF n = 0 THEN <<>> ELSE QueryRows(rows, n - 1) \o Branch(rows, n)

\* get_terms(): the fragment after "#" of every row of the class query
get_terms == QueryRows(classRows, ClassBranches)

\* get_properties(): the same for the property query
get_properties == QueryRows(propRows, MaxPropRows)

(***************************************************************************)
(* validate_brick_term.                                                    *)
(***************************************************************************)
\* [{"term": s, "type": kind} for s in terms]
Tagged(terms, kind) ==
    [i \in DOMAIN terms |-> [term |-> terms[i], type |-> kind]]

\* Variant: the ranking without its slice [:5].
ClosestUncut(term, candidates) ==
    sorted(candidates, [x \in Range(candidates) |-> smash_distance(term, x)])

\* sorted(candidates, key=lambda x: smash_distance(term, x))[:5]
Closest(term, candidates) ==
    Take(sorted(candidates,
                [x \in Range(candidates) |-> smash_distance(term, x)]),
         TopK)

\* Variant: any concept_type but "property" checks the classes.
ChecksClassesUnlessProperty(concept_type) == concept_type # <<"property">>

\* "if concept_type is None or concept_type == 'class'": the class
\* vocabulary is checked for membership
ChecksClasses(concept_type) ==
    concept_type = None \/ concept_type = <<"class">>

\* "if concept_type is None or concept_type == 'property'"
ChecksProperties(concept_type) ==
    concept_type = None \/ concept_type = <<"property">>

\* "if concept_type == 'class' or concept_type is None": classes are
\* searched for suggestions
SearchesClasses(concept_type) ==
    concept_type = <<"class">> \/ concept_type = None

\* Variant: properties are searched whatever the concept_type.
SearchesAnyConceptType(concept_type) == TRUE

\* "if concept_type == 'property' or concept_type is None"
SearchesProperties(concept_type) ==
    concept_type = <<"property">> \/ concept_type = None

\* Variant: the suggestion block reuses the list of the membership check.
SearchReusesList(searches) == 0

\* The get_terms() or get_properties() calls of the suggestion block for a
\* vocabulary: when it searches it, it fetches the list again.
SearchQueries(searches) == IF searches THEN 1 ELSE 0

\* Variant: the property suggestions are left out.
SuggestionsClassesOnly(term, concept_type) ==
    IF SearchesClasses(concept_type)
    THEN Tagged(Closest(term, get_terms), "class")
    ELSE <<>>

\* Variant: the property suggestions are put before the class suggestions.
SuggestionsPropertiesFirst(term, concept_type) ==
    LET class_suggestions ==
            IF SearchesClasses(concept_type)
            THEN Tagged(Closest(term, get_terms), "class")
            ELSE <<>>
        property_suggestions ==
            IF SearchesProperties(concept_type)
            THEN Tagged(Closest(term, get_properties), "property")
            ELSE <<>>
        suggestions == property_suggestions \o class_suggestions
    IN  IF concept_type = None /\ Len(suggestions) > TopK
        THEN Take(sorted(suggestions,
                         [x \in Range(suggestions) |->
                              smash_distance(term, x.term)]),
                  TopK)
        ELSE suggestions

\* The block under "if not result['valid']": the class suggestions, then
\* the property suggestions, re-ranked and cut to 5 only when there are
\* more than 5 of them and concept_type is None.
Suggestions(term, concept_type) ==
    LET class_suggestions ==
            IF SearchesClasses(concept_type)
            THEN Tagged(Closest(term, get_terms), "class")
            ELSE <<>>
        property_suggestions ==
            IF SearchesProperties(concept_type)
            THEN Tagged(Closest(term, get_properties), "property")
            ELSE <<>>
        suggestions == class_suggestions \o property_suggestions
    IN  IF concept_type = None /\ Len(suggestions) > TopK
        THEN Take(sorted(suggestions,
                         [x \in Range(suggestions) |->
                              smash_distance(term, x.term)]),
                  TopK)
        ELSE suggestions

\* Variant: the type is left "unknown".
MatchedUntyped(result, kind) == [result EXCEPT !.valid = TRUE]

\* result["valid"] = True; result["type"] = kind
Matched(result, kind) == [result EXCEPT !.valid = TRUE, !.type = kind]

\* Variant: the property vocabulary is checked before the class one.
ValidatePropertiesFirst(term, concept_type) ==
    LET result == [valid |-> FALSE, type |-> "unknown", term |-> term,
                   suggestions |-> <<>>]
        membershipClass == IF ChecksClasses(concept_type) THEN 1 ELSE 0
        membershipProp == IF ChecksProperties(concept_type) THEN 1 ELSE 0
    IN  IF ChecksProperties(concept_type) /\ In(term, get_properties)
        THEN [result |-> Matched(result, "property"),
              classQueries |-> 0,
              propQueries |-> membershipProp]
        ELSE IF ChecksClasses(concept_type) /\ In(term, get_terms)
        THEN [result |-> Matched(result, "class"),
              classQueries |-> membershipClass,
              propQueries |-> membershipProp]
        ELSE [result |-> [result EXCEPT
                            !.suggestions = Suggestions(term, concept_type)],
              classQueries |-> membershipClass
                  + SearchQueries(SearchesClasses(concept_type)),
              propQueries |-> membershipProp
                  + SearchQueries(SearchesProperties(concept_type))]

\* One call of validate_brick_term: the dict it returns and the calls of
\* get_terms() and get_properties() it makes on the way.
ValidateCall(term, concept_type) ==
    LET result == [valid |-> FALSE, type |-> "unknown", term |-> term,
                   suggestions |-> <<>>]
        membershipClass == IF ChecksClasses(concept_type) THEN 1 ELSE 0
        membershipProp == IF ChecksProperties(concept_type) THEN 1 ELSE 0
    IN  IF ChecksClasses(concept_type) /\ In(term, get_terms)
        THEN [result |-> Matched(result, "class"),
              classQueries |-> membershipClass,
              propQueries |-> 0]
        ELSE IF ChecksProperties(concept_type) /\ In(term, get_properties)
        THEN [result |-> Matched(result, "property"),
              classQueries |-> membershipClass,
              propQueries |-> membershipProp]
        ELSE [result |-> [result EXCEPT
                            !.suggestions = Suggestions(term, concept_type)],
              classQueries |-> membershipClass
                  + SearchQueries(SearchesClasses(concept_type)),
              propQueries |-> membershipProp
                  + SearchQueries(SearchesProperties(concept_type))]

\* The dict validate_brick_term returns.
validate_brick_term(term, concept_type) ==
    ValidateCall(term, concept_type).result

(***************************************************************************)
(* CLASS_DICT.                                                             *)
(***************************************************************************)
\* d.keys()
DictKeys(d) == [i \in DOMAIN d |-> d[i][1]]

\* d[k] = v: an existing key keeps its place and takes the new value
DictSet(d, k, v) ==
    IF In(k, DictKeys(d))
    THEN [i \in DOMAIN d |-> IF d[i][1] = k THEN <<k, v>> ELSE d[i]]
    ELSE Append(d, <<k, v>>)

\* ontology.value(subject=BRICK[term], predicate=RDFS.label), or the
\* term's own name when there is none
LabelOf(term) == IF label[term] # <<>> THEN label[term][1] ELSE term

\* The loop of build_class_dict over the rows of get_terms().
RECURSIVE BuildFrom(_)
BuildFrom(terms) ==
    IF terms = <<>> THEN <<>>
    ELSE LET term == terms[Len(terms)]
         IN  DictSet(BuildFrom(SubSeq(terms, 1, Len(terms) - 1)),
                     LabelOf(term), term)

build_class_dict == BuildFrom(get_terms)

\* d.values()
DictValues(d) == [i \in DOMAIN d |-> d[i][2]]

\* Variant: the mapped identifiers are ranked instead of the labels.
ExpandToTerms(abbreviation) == Closest(abbreviation, DictValues(CLASS_DICT))

\* sorted(CLASS_DICT.keys(), key=lambda x: smash_distance(abbreviation, x))[:5]
expand_abbreviation(abbreviation) == Closest(abbreviation, DictKeys(CLASS_DICT))

(***************************************************************************)
(* The operations.                                                         *)
(***************************************************************************)
NoResponse == [tool |-> "none"]

\* main(): CLASS_DICT = build_class_dict(), then mcp.run() serves requests.
Main ==
    /\ pc = "imported"
    /\ nClassQueries + 1 <= MaxQueries
    /\ CLASS_DICT' = build_class_dict
    /\ dictWrites' = dictWrites + 1
    /\ nClassQueries' = nClassQueries + 1
    /\ pc' = "serving"
    /\ UNCHANGED <<ontologyVars, nPropQueries, response>>

\* One call of the tool validate_brick_term.
ValidateBrickTerm(term, concept_type) ==
    \E call \in {ValidateCall(term, concept_type)} :
        /\ nClassQueries + call.classQueries <= MaxQueries
        /\ nPropQueries + call.propQueries <= MaxQueries
        /\ nClassQueries' = nClassQueries + call.classQueries
        /\ nPropQueries' = nPropQueries + call.propQueries
        /\ response' = [tool |-> "validate_brick_term",
                        term |-> term,
                        concept_type |-> concept_type,
                        result |-> call.result,
                        classQueries |-> call.classQueries,
                        propQueries |-> call.propQueries]
        /\ UNCHANGED <<ontologyVars, CLASS_DICT, dictWrites, pc>>

\* Variant: the handler builds CLASS_DICT itself before it ranks.
ExpandAndRebuild(abbreviation) ==
    /\ nClassQueries + 1 <= MaxQueries
    /\ CLASS_DICT' = build_class_dict
    /\ dictWrites' = dictWrites + 1
    /\ nClassQueries' = nClassQueries + 1
    /\ response' = [tool |-> "expand_abbreviation",
                    abbreviation |-> abbreviation,
                    result |-> Closest(abbreviation,
                                       DictKeys(build_class_dict))]
    /\ UNCHANGED <<ontologyVars, pc, nPropQueries>>

\* One call of the tool expand_abbreviation.
ExpandAbbreviation(abbreviation) ==
    /\ response' = [tool |-> "expand_abbreviation",
                    abbreviation |-> abbreviation,
                    result |-> expand_abbreviation(abbreviation)]
    /\ UNCHANGED <<ontologyVars, CLASS_DICT, dictWrites, pc,
                   nClassQueries, nPropQueries>>

(***************************************************************************)
(* The server process: the module is imported, main() runs, and requests   *)
(* are served one at a time.                                               *)
(***************************************************************************)
NoLabels == [t \in Terms |-> <<>>]

\* A scorer that scores the candidates in S freely.
ScorersOn(S) ==
    {[s \in Terms \cup Labels |-> IF s \in S THEN f[s] ELSE 0] :
        f \in [S -> 0..MaxScore]}

\* After import: CLASS_DICT = {} and nothing has been queried.
Imported ==
    /\ CLASS_DICT = <<>>
    /\ dictWrites = 0
    /\ pc = "imported"
    /\ nClassQueries = 0
    /\ nPropQueries = 0
    /\ response = NoResponse

\* The ontologies the served process is followed on: every identifier is a
\* class, a property, both or neither, the first two identifiers may carry
\* the same display label, and the scorer scores the first identifier
\* freely.  (Repeated rows and the other scorers are covered where
\* validate_brick_term and expand_abbreviation are called directly.)
Init ==
    /\ classRows \in [Terms -> 0..1]
    /\ propRows \in [Terms -> 0..1]
    /\ label \in {l \in [Terms -> {<<>>, <<LabelOrder[1]>>}] :
                      l[TermOrder[3]] = <<>>}
    /\ weight \in ScorersOn({TermOrder[1]})
    /\ Imported

Serve ==
    /\ pc = "serving"
    /\ \/ \E term \in Strings, concept_type \in ConceptTypes :
              ValidateBrickTerm(term, concept_type)
       \/ \E abbreviation \in {LabelOrder[1], Typo} :
              ExpandAbbreviation(abbreviation)

Next == Main \/ Serve

Spec == Init /\ [][Next]_vars

(***************************************************************************)
(* validate_brick_term called once on the imported module, for every       *)
(* ontology, scorer, term and concept_type.                                *)
(***************************************************************************)
InitValidate ==
    /\ classRows \in [Terms -> 0..ClassBranches]
    /\ propRows \in [Terms -> 0..MaxPropRows]
    /\ label = NoLabels
    /\ weight \in ScorersOn(Terms)
    /\ Imported

NextValidate ==
    /\ response = NoResponse
    /\ \E term \in Strings, concept_type \in ConceptTypes :
           ValidateBrickTerm(term, concept_type)

SpecValidate == InitValidate /\ [][NextValidate]_vars

(***************************************************************************)
(* expand_abbreviation called once on the imported module with CLASS_DICT  *)
(* patched, for every set of labels and every scorer.                      *)
(***************************************************************************)
\* The dicts whose keys are the labels in S, each mapped to a class.
PatchedDict(S) ==
    LET keys == SelectSeq(LabelOrder, LAMBDA l : l \in S)
    IN  [i \in DOMAIN keys |-> <<keys[i], TermOrder[1]>>]

InitExpand ==
    /\ classRows = [t \in Terms |-> 0]
    /\ propRows = [t \in Terms |-> 0]
    /\ label = NoLabels
    /\ weight \in ScorersOn(Labels)
    /\ pc = "imported"
    /\ nClassQueries = 0
    /\ nPropQueries = 0
    /\ response = NoResponse
    /\ CLASS_DICT \in {PatchedDict(S) : S \in SUBSET Labels}
    /\ dictWrites = 0

NextExpand ==
    /\ response = NoResponse
    /\ \E abbreviation \in {LabelOrder[1], Typo} :
           ExpandAbbreviation(abbreviation)

SpecExpand == InitExpand /\ [][NextExpand]_vars

(***************************************************************************)
(* Properties.                                                             *)
(***************************************************************************)
Validated == response.tool = "validate_brick_term"

Expanded == response.tool = "expand_abbreviation"

\* A term that is in neither vocabulary, validated with no concept_type.
UnknownUnrestricted ==
    /\ Validated
    /\ response.concept_type = None
    /\ ~In(response.term, get_terms)
    /\ ~In(response.term, get_properties)

\* The candidates the suggestion block ranks for a concept_type.
Candidates(concept_type) ==
    (IF concept_type \in {None, <<"class">>} THEN get_terms ELSE <<>>)
    \o (IF concept_type \in {None, <<"property">>} THEN get_properties
        ELSE <<>>)

\* C1 as stated: in every result of validate_brick_term, valid is true if
\* and only if suggestions is empty.
C1_ValidIffNoSuggestions ==
    Validated =>
        (response.result.valid <=> response.result.suggestions = <<>>)

\* C1 amended: a valid result has no suggestions, and an invalid one has
\* none exactly when there is no candidate to rank for its concept_type
\* (empty vocabularies, or a concept_type that selects no vocabulary).
C1_NoSuggestionsIffValidOrNoCandidates ==
    Validated =>
        /\ response.result.valid => response.result.suggestions = <<>>
        /\ response.result.suggestions = <<>>
               <=> (response.result.valid
                    \/ Candidates(response.concept_type) = <<>>)

C1_Witness ==
    /\ Validated
    /\ response.concept_type = None
    /\ ~response.result.valid
    /\ get_terms = <<>>
    /\ response.result.suggestions # <<>>

\* C2 as stated: a concept_type other than "class" and "property" gives the
\* result of the unrestricted call on the same term.
C2_UnknownTypeIsUnrestricted ==
    (Validated /\ response.concept_type \notin
                      {None, <<"class">>, <<"property">>})
        => response.result = validate_brick_term(response.term, None)

\* C2 amended: with a concept_type other than None, "class" and "property"
\* no vocabulary is consulted: the result is valid=false, type "unknown",
\* no suggestions, and the store is not queried.
C2_UnknownTypeConsultsNothing ==
    (Validated /\ response.concept_type \notin
                      {None, <<"class">>, <<"property">>})
        => /\ response.result = [valid |-> FALSE, type |-> "unknown",
                                 term |-> response.term,
                                 suggestions |-> <<>>]
           /\ response.classQueries = 0
           /\ response.propQueries = 0

C2_Witness ==
    /\ Validated
    /\ response.concept_type = <<"tag">>
    /\ In(response.term, get_terms)
    /\ get_properties # <<>>

\* C3 as stated: for a term in neither vocabulary and no concept_type,
\* every suggestion carries the kind of a vocabulary that holds it and the
\* suggestions are in non-decreasing order of their score.
C3_MergedSuggestionsRanked ==
    UnknownUnrestricted =>
        LET sug == response.result.suggestions
        IN  /\ \A i \in DOMAIN sug :
                   \/ sug[i].type = "class" /\ In(sug[i].term, get_terms)
                   \/ sug[i].type = "property"
                          /\ In(sug[i].term, get_properties)
            /\ \A i, j \in DOMAIN sug :
                   i < j => smash_distance(response.term, sug[i].term)
                                <= smash_distance(response.term, sug[j].term)

\* C4: the suggestions of validate_brick_term are at most 5.
C4_AtMostFiveSuggestions ==
    Validated => Len(response.result.suggestions) <= TopK

C4_Witness ==
    /\ Validated
    /\ response.concept_type = <<"class">>
    /\ Len(get_terms) > TopK
    /\ Len(response.result.suggestions) = TopK

\* C5: a term in both vocabularies, validated with no concept_type, is
\* reported as a class, and get_properties is not called.
C5_ClassBeforeProperty ==
    (/\ Validated
     /\ response.concept_type = None
     /\ In(response.term, get_terms)
     /\ In(response.term, get_properties))
        => /\ response.result.valid
           /\ response.result.type = "class"
           /\ response.propQueries = 0

C5_Witness ==
    /\ Validated
    /\ response.concept_type = None
    /\ In(response.term, get_terms)
    /\ In(response.term, get_properties)
    /\ response.result.type = "class"

\* C6: with concept_type "class" only the class vocabulary decides: the
\* term is valid iff it is a class, an invalid one has type "unknown",
\* every suggestion is a class of the class vocabulary and get_properties
\* is not called; and the same for "property" with the property vocabulary.
C6_TypeFilter ==
    LET res == response.result
    IN  /\ (Validated /\ response.concept_type = <<"class">>) =>
               /\ res.valid <=> In(response.term, get_terms)
               /\ res.type = IF res.valid THEN "class" ELSE "unknown"
               /\ \A i \in DOMAIN res.suggestions :
                      /\ res.suggestions[i].type = "class"
                      /\ In(res.suggestions[i].term, get_terms)
               /\ response.propQueries = 0
        /\ (Validated /\ response.concept_type = <<"property">>) =>
               /\ res.valid <=> In(response.term, get_properties)
               /\ res.type = IF res.valid THEN "property" ELSE "unknown"
               /\ \A i \in DOMAIN res.suggestions :
                      /\ res.suggestions[i].type = "property"
                      /\ In(res.suggestions[i].term, get_properties)
               /\ response.classQueries = 0

C6_Witness ==
    /\ Validated
    /\ response.concept_type = <<"class">>
    /\ In(response.term, get_properties)
    /\ ~In(response.term, get_terms)
    /\ ~response.result.valid
    /\ response.result.suggestions # <<>>

\* C7: with no concept_type a class term gives valid, "class", the term and
\* no suggestions; a term that is a property and no class gives the same
\* with "property"; and in every result type is "unknown" exactly when
\* valid is false.
C7_ValidResults ==
    LET res == response.result
    IN  /\ (/\ Validated
            /\ response.concept_type = None
            /\ In(response.term, get_terms))
               => res = [valid |-> TRUE, type |-> "class",
                         term |-> response.term, suggestions |-> <<>>]
        /\ (/\ Validated
            /\ response.concept_type = None
            /\ In(response.term, get_properties)
            /\ ~In(response.term, get_terms))
               => res = [valid |-> TRUE, type |-> "property",
                         term |-> response.term, suggestions |-> <<>>]
        /\ Validated => (res.type = "unknown" <=> ~res.valid)

C7_Witness ==
    /\ Validated
    /\ response.concept_type = None
    /\ In(response.term, get_properties)
    /\ ~In(response.term, get_terms)
    /\ response.result.type = "property"

\* C8: expand_abbreviation returns min(5, number of labels) pairwise
\* distinct keys of CLASS_DICT, never its values, in non-decreasing order
\* of score(abbreviation, label); no label left out scores strictly lower
\* than a returned one; the result is empty exactly when CLASS_DICT is.
C8_ExpandReturnsClosestLabels ==
    Expanded =>
        LET res == response.result
            keys == DictKeys(CLASS_DICT)
            score(l) == smash_distance(response.abbreviation, l)
        IN  /\ Len(res) = Min(TopK, Len(keys))
            /\ \A i \in DOMAIN res :
                   In(res[i], keys) /\ ~In(res[i], DictValues(CLASS_DICT))
            /\ \A i, j \in DOMAIN res :
                   i < j => res[i] # res[j] /\ score(res[i]) <= score(res[j])
            /\ \A l \in Range(keys) \ Range(res) :
                   \A i \in DOMAIN res : score(l) >= score(res[i])
            /\ res = <<>> <=> keys = <<>>

C8_Witness ==
    /\ Expanded
    /\ Len(CLASS_DICT) > TopK
    /\ Len(response.result) = TopK
    /\ \E i, j \in DOMAIN response.result :
           smash_distance(response.abbreviation, response.result[i])
               < smash_distance(response.abbreviation, response.result[j])
    /\ response.result # Take(DictKeys(CLASS_DICT), TopK)

\* The ontology.query calls made for requests: all but the one main()
\* makes through build_class_dict.
RequestClassQueries ==
    nClassQueries - (IF pc = "serving" THEN 1 ELSE 0)

C10_SuggestionsDistinct ==
    Validated =>
        \A i, j \in DOMAIN response.result.suggestions :
            i # j => response.result.suggestions[i]
                         # response.result.suggestions[j]

\* C11 as stated: after build_class_dict every class returned by get_terms
\* is the value of exactly one key of CLASS_DICT, and that key is its
\* display label or, when it has none, its own name.
C11_EveryClassUnderOneKey ==
    pc = "serving" =>
        \A t \in Range(get_terms) :
            /\ Cardinality({i \in DOMAIN CLASS_DICT :
                                CLASS_DICT[i][2] = t}) = 1
            /\ In(<<LabelOf(t), t>>, CLASS_DICT)

\* C12: in a run through main() CLASS_DICT is assigned exactly once, by
\* build_class_dict before any request is served, and no request handler
\* assigns CLASS_DICT or changes the ontology afterwards: every request is
\* served against the mapping build_class_dict built.
C12_BuiltOnceBeforeServing ==
    /\ [](pc = "imported" => dictWrites = 0 /\ response = NoResponse)
    /\ [](pc = "serving" => dictWrites = 1 /\ CLASS_DICT = build_class_dict)
    /\ [][pc = "serving" =>
              /\ pc' = "serving"
              /\ UNCHANGED <<CLASS_DICT, dictWrites,
                             classRows, propRows, label>>]_vars

C12_Witness ==
    /\ pc = "serving"
    /\ Expanded
    /\ dictWrites = 1
    /\ CLASS_DICT # <<>>
    /\ response.result = DictKeys(CLASS_DICT)

\* Every class row tagged "class", then every property row tagged
\* "property", each kind in the order the store returns it.
AllCandidates ==
    Tagged(get_terms, "class") \o Tagged(get_properties, "property")

\* In one stable ascending sort of all by score against term, the entry at
\* position i comes before the entry at position j.
Precedes(term, all, i, j) ==
    \/ smash_distance(term, all[i].term) < smash_distance(term, all[j].term)
    \/ /\ smash_distance(term, all[i].term) = smash_distance(term, all[j].term)
       /\ i < j

\* The number of entries that come before the entry at position i.
StableRank(term, all, i) ==
    Cardinality({j \in DOMAIN all : Precedes(term, all, j, i)})

\* C13: for a term in neither vocabulary and no concept_type, when the two
\* per-kind top-5 lists hold more than 5 entries together, the suggestions
\* are the first 5 entries of one stable ascending sort by score of all
\* class rows followed by all property rows: among equal scores classes
\* come before properties and store order is kept within a kind.
C13_TwoStageIsGlobalTopFive ==
    (/\ UnknownUnrestricted
     /\ Min(TopK, Len(get_terms)) + Min(TopK, Len(get_properties)) > TopK)
        => LET sug == response.result.suggestions
               all == AllCandidates
           IN  /\ Len(sug) = TopK
               /\ \A i \in DOMAIN all :
                      StableRank(response.term, all, i) < TopK
                          => sug[StableRank(response.term, all, i) + 1]
                                 = all[i]

C13_Witness ==
    /\ UnknownUnrestricted
    /\ Len(get_terms) > TopK
    /\ Len(get_properties) > 0
    /\ \E i, j \in DOMAIN response.result.suggestions :
           /\ i < j
           /\ response.result.suggestions[i].type = "property"
           /\ response.result.suggestions[j].type = "class"
    /\ \E i, j \in DOMAIN response.result.suggestions :
           /\ i < j
           /\ response.result.suggestions[i].type = "class"
           /\ response.result.suggestions[j].type = "property"
           /\ smash_distance(response.term,
                             response.result.suggestions[i].term)
                  = smash_distance(response.term,
                                   response.result.suggestions[j].term)

====
